---- MODULE Spec2Model ----
(***************************************************************************)
(* Exploration/ingestion engine of infinite_craft_map (collectData.go).    *)
(*                                                                         *)
(* The durable store (items.db) is the pair of tables `items` and          *)
(* `combinations`; the process owns the in-memory localItemsCache and the  *)
(* locals of exploreCombinations.  `pc` is the position of the single      *)
(* thread of control.  The combine endpoint is the environment: every      *)
(* CallApi step draws its answer from HttpAnswers.                         *)
(***************************************************************************)
EXTENDS Integers, Sequences, FiniteSets, TLC

VARIABLES
    dbExists,            \* the file ./items.db exists
    tables,              \* tables present in the file
    items,               \* table items: name -> [emoji, isNew]
    combinations,        \* table combinations: sequence of rows, id = index
    localItemsCache,     \* var localItemsCache map[string]string
    pc,                  \* position of the process
    iterations,          \* loop iterations begun by all runs so far
    maxCombinations,     \* exploreCombinations parameter
    maxAttempts,         \* exploreCombinations parameter
    attempts,            \* exploreCombinations local
    createdCombinations, \* exploreCombinations local
    firstItem,           \* exploreCombinations local
    secondItem,          \* exploreCombinations local
    response,            \* combineElements local (decoded ApiResponse)
    retries,             \* 429 answers to the current callApi (its recursion depth)
    called,              \* an outbound request was issued in the current iteration
    slept                \* time.Sleep calls of the latest step: <<>> or <<ms>>

store == <<dbExists, tables, items, combinations>>
locals == <<maxCombinations, maxAttempts, attempts, createdCombinations,
            firstItem, secondItem, response, retries, called>>
vars == <<dbExists, tables, items, combinations, localItemsCache, pc,
          iterations, maxCombinations, maxAttempts, attempts,
          createdCombinations, firstItem, secondItem, response, retries, called,
          slept>>

(***************************************************************************)
(* Bounds of the model.                                                    *)
(***************************************************************************)
MaxIterations == 2   \* loop iterations over all runs together
MaxRetries == 2      \* HTTP 429 answers to one callApi

(***************************************************************************)
(* Program constants.                                                      *)
(***************************************************************************)
DefaultRetryAfter == 60      \* seconds
PacingMillis == 50
MillisPerSecond == 1000
StatusTooManyRequests == 429
StatusBadRequest == 400

initialItems ==
    << [Name |-> "Water", Emoji |-> ":droplet:"],
       [Name |-> "Fire",  Emoji |-> ":fire:"],
       [Name |-> "Wind",  Emoji |-> ":wind:"],
       [Name |-> "Earth", Emoji |-> ":earth:"] >>

ItemsTable == "items"
CombinationsTable == "combinations"

EmptyItems == [n \in {} |-> [emoji |-> "", isNew |-> FALSE]]
EmptyCache == [n \in {} |-> ""]
ZeroResponse == [Result |-> "", Emoji |-> "", IsNew |-> FALSE]

(***************************************************************************)
(* The environment: what the combine endpoint may answer.                  *)
(***************************************************************************)
\* Response bodies: a JSON object given by its members, or bytes that are
\* no JSON at all.
Bodies ==
    { [json |-> TRUE,  obj |-> [result |-> "Steam", emoji |-> ":dash:", isNew |-> TRUE]],
      [json |-> TRUE,  obj |-> [result |-> "Water", emoji |-> ":ocean:"]],
      [json |-> FALSE, obj |-> [result |-> ""]] }

\* Retry-After header values, as sequences of characters (<<>>: no header).
RetryAfterHeaders ==
    { <<>>, <<"1">>, <<"-", "5">>, <<"1", "s">> }

NoBody == [json |-> FALSE, obj |-> [result |-> ""]]

\* An answer of client.Do: a transport error, or a status with its
\* Retry-After header and body.
HttpAnswers ==
    { [err |-> TRUE, status |-> 0, retryAfter |-> <<>>, body |-> NoBody] }
    \cup { [err |-> FALSE, status |-> StatusTooManyRequests, retryAfter |-> h, body |-> NoBody] :
              h \in RetryAfterHeaders }
    \cup { [err |-> FALSE, status |-> st, retryAfter |-> <<>>, body |-> NoBody] :
              st \in {StatusBadRequest, 500} }
    \cup { [err |-> FALSE, status |-> st, retryAfter |-> <<>>, body |-> b] :
              st \in {200, 304}, b \in Bodies }

(***************************************************************************)
(* Pure functions.                                                         *)
(***************************************************************************)
DigitChars == <<"0", "1", "2", "3", "4", "5", "6", "7", "8", "9">>

IsDigit(c) == \E i \in DOMAIN DigitChars : DigitChars[i] = c

DigitValue(c) == (CHOOSE i \in DOMAIN DigitChars : DigitChars[i] = c) - 1

RECURSIVE ParseDigits(_, _)
\* value of a string of digits, most significant first, onto acc
ParseDigits(s, acc) ==
    IF s = <<>> THEN acc
    ELSE ParseDigits(Tail(s), acc * 10 + DigitValue(Head(s)))

\* strconv.Atoi: an optional sign, then one or more decimal digits.
Atoi(s) ==
    LET signed == s # <<>> /\ Head(s) \in {"+", "-"}
        digits == IF signed THEN Tail(s) ELSE s
        ok     == digits # <<>> /\ \A i \in DOMAIN digits : IsDigit(digits[i])
        mag    == IF ok THEN ParseDigits(digits, 0) ELSE 0
    IN  [err |-> ~ok,
         val |-> IF signed /\ Head(s) = "-" THEN 0 - mag ELSE mag]

\* callApi lines 168-172: the argument of time.Sleep on a 429, milliseconds.
RetrySleep(header) ==
    LET parsed     == Atoi(header)
        retryAfter == IF parsed.err THEN DefaultRetryAfter ELSE parsed.val
    IN  (retryAfter + 1) * MillisPerSecond

\* time.Sleep returns at once for a zero or negative duration.
Waited(d) == IF d <= 0 THEN 0 ELSE d

\* json.Unmarshal into ApiResponse: members that are absent keep the zero value.
Unmarshal(body) ==
    [Result |-> IF "result" \in DOMAIN body.obj THEN body.obj.result ELSE "",
     Emoji  |-> IF "emoji" \in DOMAIN body.obj THEN body.obj.emoji ELSE "",
     IsNew  |-> IF "isNew" \in DOMAIN body.obj THEN body.obj.isNew ELSE FALSE]

\* combinationExists: SELECT COUNT(*) ... WHERE firstItem = ? AND secondItem = ?
CountCombinations(rows, first, second) ==
    Cardinality({ i \in DOMAIN rows :
                    rows[i].firstItem = first /\ rows[i].secondItem = second })

\* variant: the lookup binds the two names in the wrong order
combinationExists_Reversed(rows, first, second) ==
    CountCombinations(rows, second, first) > 0

combinationExists(rows, first, second) == CountCombinations(rows, first, second) > 0

\* variant: the statement lacks its ON CONFLICT clause's update (DO NOTHING)
UpsertItem_InsertOnly(tbl, name, emoji, isNew) ==
    [n \in DOMAIN tbl \cup {name} |->
        IF n \in DOMAIN tbl THEN tbl[n] ELSE [emoji |-> emoji, isNew |-> isNew]]

\* INSERT INTO items ... ON CONFLICT(name) DO UPDATE SET emoji, isNew
UpsertItem(tbl, name, emoji, isNew) ==
    [n \in DOMAIN tbl \cup {name} |->
        IF n = name THEN [emoji |-> emoji, isNew |-> isNew] ELSE tbl[n]]

\* variant: the table is created without its UNIQUE clause
UniqueAccepts_Off(rows, first, second) == TRUE

\* UNIQUE(firstItem, secondItem): whether the INSERT of the pair is accepted
UniqueAccepts(rows, first, second) ==
    \A i \in DOMAIN rows :
        ~(rows[i].firstItem = first /\ rows[i].secondItem = second)

\* variant: the values are bound to the wrong columns
AppendCombination_Misbound(rows, first, second, result) ==
    Append(rows, [firstItem |-> first, secondItem |-> result, resultItem |-> second])

\* INSERT INTO combinations (firstItem, secondItem, resultItem)
AppendCombination(rows, first, second, result) ==
    Append(rows, [firstItem |-> first, secondItem |-> second, resultItem |-> result])

\* variant: the cache keeps the glyph of a name it already holds
CachePut_KeepOld(cache, name, emoji) ==
    [n \in DOMAIN cache \cup {name} |-> IF n \in DOMAIN cache THEN cache[n] ELSE emoji]

\* localItemsCache[name] = emoji
CachePut(cache, name, emoji) ==
    [n \in DOMAIN cache \cup {name} |-> IF n = name THEN emoji ELSE cache[n]]

\* variant: the query reads the entries with isNew false only
HydratedCache_KnownOnly(tbl) ==
    [n \in { m \in DOMAIN tbl : ~tbl[m].isNew } |-> tbl[n].emoji]

\* SELECT name, emoji FROM items, into a fresh map
HydratedCache(tbl) == [n \in DOMAIN tbl |-> tbl[n].emoji]

RECURSIVE SeedItems(_)
\* the table items after the first k INSERTs of insertInitialItems
SeedItems(k) ==
    IF k = 0 THEN EmptyItems
    ELSE UpsertItem(SeedItems(k - 1), initialItems[k].Name, initialItems[k].Emoji, FALSE)

\* variant: the second index is not redrawn when it equals the first
RandomPairs_NoRedraw(cache) == (DOMAIN cache) \X (DOMAIN cache)

\* getRandomItems: the pairs it can return, two distinct keys of the cache
RandomPairs(cache) ==
    { p \in (DOMAIN cache) \X (DOMAIN cache) : p[1] # p[2] }

(***************************************************************************)
(* Stores left behind by earlier runs.  ExploredStore is the store after   *)
(* a run that combined every ordered pair of the seeds and was answered    *)
(* "Water" each time: the writes of combineElements, pair after pair.      *)
(***************************************************************************)
SeedPairs ==
    << <<"Water", "Fire">>, <<"Water", "Wind">>, <<"Water", "Earth">>,
       <<"Fire", "Water">>, <<"Fire", "Wind">>, <<"Fire", "Earth">>,
       <<"Wind", "Water">>, <<"Wind", "Fire">>, <<"Wind", "Earth">>,
       <<"Earth", "Water">>, <<"Earth", "Fire">>, <<"Earth", "Wind">> >>

RECURSIVE ExploredRows(_)
ExploredRows(k) ==
    IF k = 0 THEN <<>>
    ELSE AppendCombination(ExploredRows(k - 1), SeedPairs[k][1], SeedPairs[k][2], "Water")

ExploredStore ==
    [items |-> UpsertItem(SeedItems(Len(initialItems)), "Water", ":ocean:", FALSE),
     combinations |-> ExploredRows(Len(SeedPairs))]

(***************************************************************************)
(* Initial states: the process is about to start, on no store file or on   *)
(* the explored store of an earlier run.                                   *)
(***************************************************************************)
Init ==
    /\ dbExists \in BOOLEAN
    /\ tables = IF dbExists THEN {ItemsTable, CombinationsTable} ELSE {}
    /\ items = IF dbExists THEN ExploredStore.items ELSE EmptyItems
    /\ combinations = IF dbExists THEN ExploredStore.combinations ELSE <<>>
    /\ localItemsCache = EmptyCache
    /\ pc = "boot"
    /\ iterations = 0
    /\ maxCombinations = 0
    /\ maxAttempts = 0
    /\ attempts = 0
    /\ createdCombinations = 0
    /\ firstItem = ""
    /\ secondItem = ""
    /\ response = ZeroResponse
    /\ retries = 0
    /\ called = FALSE
    /\ slept = <<>>

(***************************************************************************)
(* Start-up: initializeDatabase and initializeLocalCache.                  *)
(***************************************************************************)
\* variant: the seeds are written on every start (the test of dbExists is
\* lost and the INSERT replaces)
InitializeDatabase_Reseeds ==
    /\ pc = "boot"
    /\ IF dbExists
       THEN /\ pc' = "hydrate"
            /\ items' = [n \in DOMAIN items \cup DOMAIN SeedItems(Len(initialItems)) |->
                            IF n \in DOMAIN SeedItems(Len(initialItems))
                            THEN SeedItems(Len(initialItems))[n] ELSE items[n]]
            /\ UNCHANGED <<dbExists, tables, combinations>>
       ELSE \E nt \in 0..2, k \in 0..Len(initialItems) :
            /\ nt < 2 => k = 0
            /\ tables' = CASE nt = 0 -> {}
                           [] nt = 1 -> {ItemsTable}
                           [] OTHER  -> {ItemsTable, CombinationsTable}
            /\ items' = SeedItems(k)
            /\ combinations' = <<>>
            /\ IF nt = 0 THEN dbExists' \in BOOLEAN ELSE dbExists' = TRUE
            /\ pc' = IF nt = 2 /\ k = Len(initialItems) THEN "hydrate" ELSE "fatal"
    /\ slept' = <<>>
    /\ UNCHANGED <<localItemsCache, iterations, locals>>

\* initializeDatabase.  On a missing file createTables and insertInitialItems
\* run; nt tables are created and k seeds inserted before a statement fails
\* (logrus.Fatal), nt = 2 and k = 4 being the start without failure.
InitializeDatabase ==
    /\ pc = "boot"
    /\ IF dbExists
       THEN /\ pc' = "hydrate"
            /\ UNCHANGED store
       ELSE \E nt \in 0..2, k \in 0..Len(initialItems) :
            /\ nt < 2 => k = 0
            /\ tables' = CASE nt = 0 -> {}
                           [] nt = 1 -> {ItemsTable}
                           [] OTHER  -> {ItemsTable, CombinationsTable}
            /\ items' = SeedItems(k)
            /\ combinations' = <<>>
            /\ IF nt = 0 THEN dbExists' \in BOOLEAN ELSE dbExists' = TRUE
            /\ pc' = IF nt = 2 /\ k = Len(initialItems) THEN "hydrate" ELSE "fatal"
    /\ slept' = <<>>
    /\ UNCHANGED <<localItemsCache, iterations, locals>>

\* initializeLocalCache: a failing query or scan is fatal.
InitializeLocalCache ==
    /\ pc = "hydrate"
    /\ \E ioerr \in BOOLEAN :
         IF ioerr \/ ItemsTable \notin tables
         THEN /\ pc' = "fatal"
              /\ localItemsCache' = EmptyCache
         ELSE /\ pc' = "explore"
              /\ localItemsCache' = HydratedCache(items)
    /\ slept' = <<>>
    /\ UNCHANGED <<store, iterations, locals>>

(***************************************************************************)
(* exploreCombinations.                                                    *)
(***************************************************************************)
\* end of an iteration (lines 261-263): attempts++, the pacing sleep, and the
\* iteration's locals go out of scope
EndIteration ==
    /\ attempts' = attempts + 1
    /\ slept' = <<PacingMillis>>
    /\ firstItem' = ""
    /\ secondItem' = ""
    /\ response' = ZeroResponse
    /\ retries' = 0
    /\ called' = FALSE
    /\ pc' = "loop"

\* exploreCombinations is entered with its two budgets (lines 239-241)
ExploreCombinations ==
    /\ pc = "explore"
    /\ \E ma \in 0..(MaxIterations - iterations), mc \in 0..(MaxIterations - iterations) :
         /\ maxCombinations' = mc
         /\ maxAttempts' = ma
    /\ attempts' = 0
    /\ createdCombinations' = 0
    /\ pc' = "loop"
    /\ slept' = <<>>
    /\ UNCHANGED <<store, localItemsCache, iterations, firstItem, secondItem,
                   response, retries, called>>

\* variant: the attempt bound is tested with <=
LoopCondition_OffByOne ==
    createdCombinations < maxCombinations /\ attempts <= maxAttempts

\* variant: the two bounds are joined with ||
LoopCondition_Either ==
    createdCombinations < maxCombinations \/ attempts < maxAttempts

\* the loop condition (line 243)
LoopCondition == createdCombinations < maxCombinations /\ attempts < maxAttempts

\* the loop condition fails: line 266
LoopExit ==
    /\ pc = "loop"
    /\ ~LoopCondition
    /\ pc' = "finished"
    /\ slept' = <<>>
    /\ UNCHANGED <<store, localItemsCache, iterations, locals>>

\* an iteration begins: getRandomItems (lines 244-248)
GetRandomItems ==
    /\ pc = "loop"
    /\ LoopCondition
    /\ iterations' = iterations + 1
    /\ IF Cardinality(DOMAIN localItemsCache) < 2
       THEN /\ pc' = "aborted"
            /\ UNCHANGED <<firstItem, secondItem>>
       ELSE /\ \E p \in RandomPairs(localItemsCache) :
                 /\ firstItem' = p[1]
                 /\ secondItem' = p[2]
            /\ pc' = "check"
    /\ slept' = <<>>
    /\ UNCHANGED <<store, localItemsCache, maxCombinations, maxAttempts, attempts,
                   createdCombinations, response, retries, called>>

\* variant: an error of the check is logged and the loop goes on (continue
\* in place of return)
CombinationExists_Continue ==
    /\ pc = "check"
    /\ \E ioerr \in BOOLEAN :
         IF ioerr \/ CombinationsTable \notin tables
         THEN EndIteration
         ELSE IF combinationExists(combinations, firstItem, secondItem)
              THEN EndIteration
              ELSE /\ pc' = "call"
                   /\ slept' = <<>>
                   /\ UNCHANGED <<attempts, firstItem, secondItem, response, retries, called>>
    /\ UNCHANGED <<store, localItemsCache, iterations, maxCombinations, maxAttempts,
                   createdCombinations>>

\* combinationExists and the branch on it (lines 250-256); a pair already
\* recorded goes straight to the end of the iteration
CombinationExists ==
    /\ pc = "check"
    /\ \E ioerr \in BOOLEAN :
         IF ioerr \/ CombinationsTable \notin tables
         THEN /\ pc' = "aborted"
              /\ slept' = <<>>
              /\ UNCHANGED <<attempts, firstItem, secondItem, response, retries, called>>
         ELSE IF combinationExists(combinations, firstItem, secondItem)
              THEN EndIteration
              ELSE /\ pc' = "call"
                   /\ slept' = <<>>
                   /\ UNCHANGED <<attempts, firstItem, secondItem, response, retries, called>>
    /\ UNCHANGED <<store, localItemsCache, iterations, maxCombinations, maxAttempts,
                   createdCombinations>>

(***************************************************************************)
(* combineElements: callApi, insertOrUpdateItem, insertCombination.        *)
(***************************************************************************)
\* variant: an error of callApi makes combineElements try the call again
CallApiFails_Retried ==
    /\ pc' = "call"
    /\ slept' = <<>>
    /\ UNCHANGED <<response, retries, attempts, createdCombinations, firstItem, secondItem>>

\* callApi returns an error (transport, body read, JSON): combineElements
\* ends the process, lines 136-138
CallApiFails ==
    /\ pc' = "fatal"
    /\ slept' = <<>>
    /\ UNCHANGED <<response, retries, attempts, createdCombinations, firstItem, secondItem>>

\* variant: the retry passes the two names in the wrong order
TooManyRequests_Swapped(a) ==
    /\ retries < MaxRetries
    /\ slept' = <<RetrySleep(a.retryAfter)>>
    /\ retries' = retries + 1
    /\ pc' = "throttled"
    /\ firstItem' = secondItem
    /\ secondItem' = firstItem
    /\ UNCHANGED <<response, attempts, createdCombinations>>

\* lines 167-172: on a 429, sleep before callApi is called again with the
\* same arguments
TooManyRequests(a) ==
    /\ retries < MaxRetries
    /\ slept' = <<RetrySleep(a.retryAfter)>>
    /\ retries' = retries + 1
    /\ pc' = "throttled"
    /\ UNCHANGED <<response, attempts, createdCombinations, firstItem, secondItem>>

\* variant: a failed request skips the pair and the loop goes on
HttpFailure_Skipped ==
    /\ pc' = "loop"
    /\ attempts' = attempts + 1
    /\ slept' = <<PacingMillis>>
    /\ UNCHANGED <<response, retries, createdCombinations, firstItem, secondItem>>

\* lines 174-176: any other status >= 400 panics
HttpFailure ==
    /\ pc' = "panic"
    /\ slept' = <<>>
    /\ UNCHANGED <<response, retries, attempts, createdCombinations, firstItem, secondItem>>

\* one request of callApi (client.Do) and the handling of its answer a
CallApi(a) ==
    /\ pc = "call"
    /\ called' = TRUE
    /\ IF a.err THEN CallApiFails
       ELSE IF a.status = StatusTooManyRequests THEN TooManyRequests(a)
       ELSE IF a.status >= StatusBadRequest THEN HttpFailure
       ELSE IF ~a.body.json THEN CallApiFails
       ELSE /\ response' = Unmarshal(a.body)
            /\ retries' = 0
            /\ pc' = "upsert"
            /\ slept' = <<>>
            /\ UNCHANGED <<attempts, createdCombinations, firstItem, secondItem>>
    /\ UNCHANGED <<store, localItemsCache, iterations, maxCombinations, maxAttempts>>

\* the answer is a 429
CallApiRetry ==
    \E a \in HttpAnswers : ~a.err /\ a.status = StatusTooManyRequests /\ CallApi(a)

\* line 173: after the sleep callApi calls itself
CallApiAgain ==
    /\ pc = "throttled"
    /\ pc' = "call"
    /\ slept' = <<>>
    /\ UNCHANGED <<store, localItemsCache, iterations, locals>>

\* the answer is another status >= 400
CallApiPanic ==
    \E a \in HttpAnswers :
        ~a.err /\ a.status # StatusTooManyRequests /\ a.status >= StatusBadRequest /\ CallApi(a)

\* the request fails in transport, or the body is no JSON
CallApiError ==
    \E a \in HttpAnswers :
        (a.err \/ (a.status < StatusBadRequest /\ ~a.body.json)) /\ CallApi(a)

\* the answer decodes to an ApiResponse
CallApiOk ==
    \E a \in HttpAnswers :
        ~a.err /\ a.status < StatusBadRequest /\ a.body.json /\ CallApi(a)

\* insertOrUpdateItem, line 193: the cache is written first
InsertOrUpdateItemCache ==
    /\ pc = "upsert"
    /\ localItemsCache' = CachePut(localItemsCache, response.Result, response.Emoji)
    /\ pc' = "upsertDb"
    /\ slept' = <<>>
    /\ UNCHANGED <<store, iterations, locals>>

\* variant: the upsert statement is not executed
InsertOrUpdateItemExec_Lost ==
    /\ pc = "upsertDb"
    /\ pc' = "insert"
    /\ slept' = <<>>
    /\ UNCHANGED <<store, localItemsCache, iterations, locals>>

\* variant: the row of a known name is replaced (deleted and inserted anew)
\* and the deletion cascades to the combinations that name it
InsertOrUpdateItemExec_Cascade ==
    /\ pc = "upsertDb"
    /\ \E ioerr \in BOOLEAN :
         IF ioerr \/ ItemsTable \notin tables
         THEN /\ pc' = "fatal"
              /\ UNCHANGED <<items, combinations>>
         ELSE /\ items' = UpsertItem(items, response.Result, response.Emoji, response.IsNew)
              /\ combinations' =
                    IF response.Result \in DOMAIN items
                    THEN SelectSeq(combinations,
                             LAMBDA r : response.Result \notin
                                            {r.firstItem, r.secondItem, r.resultItem})
                    ELSE combinations
              /\ pc' = "insert"
    /\ slept' = <<>>
    /\ UNCHANGED <<dbExists, tables, localItemsCache, iterations, locals>>

\* insertOrUpdateItem, lines 194-197: the upsert; a failing statement is fatal
InsertOrUpdateItemExec ==
    /\ pc = "upsertDb"
    /\ \E ioerr \in BOOLEAN :
         IF ioerr \/ ItemsTable \notin tables
         THEN /\ pc' = "fatal"
              /\ UNCHANGED items
         ELSE /\ items' = UpsertItem(items, response.Result, response.Emoji, response.IsNew)
              /\ pc' = "insert"
    /\ slept' = <<>>
    /\ UNCHANGED <<dbExists, tables, combinations, localItemsCache, iterations, locals>>

\* whether the INSERT of insertCombination is refused
InsertFails(first, second, ioerr) ==
    \/ ioerr
    \/ CombinationsTable \notin tables
    \/ ~UniqueAccepts(combinations, first, second)

\* variant: the error of a refused INSERT is ignored
InsertCombination_Swallowed ==
    /\ pc = "insert"
    /\ \E ioerr \in BOOLEAN :
         /\ combinations' =
               IF InsertFails(firstItem, secondItem, ioerr) THEN combinations
               ELSE AppendCombination(combinations, firstItem, secondItem, response.Result)
         /\ createdCombinations' = createdCombinations + 1
         /\ attempts' = attempts + 1
         /\ slept' = <<PacingMillis>>
         /\ firstItem' = ""
         /\ secondItem' = ""
         /\ response' = ZeroResponse
         /\ retries' = 0
         /\ called' = FALSE
         /\ pc' = "loop"
    /\ UNCHANGED <<dbExists, tables, items, localItemsCache, iterations,
                   maxCombinations, maxAttempts>>

\* insertCombination (a refused INSERT is fatal), then createdCombinations++
\* and the end of the iteration (lines 258-263)
InsertCombination ==
    /\ pc = "insert"
    /\ \E ioerr \in BOOLEAN :
         IF InsertFails(firstItem, secondItem, ioerr)
         THEN /\ pc' = "fatal"
              /\ slept' = <<>>
              /\ UNCHANGED <<combinations, createdCombinations, attempts, firstItem,
                             secondItem, response, retries, called>>
         ELSE /\ combinations' =
                    AppendCombination(combinations, firstItem, secondItem, response.Result)
              /\ createdCombinations' = createdCombinations + 1
              /\ EndIteration
    /\ UNCHANGED <<dbExists, tables, items, localItemsCache, iterations,
                   maxCombinations, maxAttempts>>

(***************************************************************************)
(* The process as a whole.                                                 *)
(***************************************************************************)
Running == {"boot", "hydrate", "explore", "loop", "check", "call", "throttled",
            "upsert", "upsertDb", "insert"}

\* "finished" and "aborted": exploreCombinations returned and main ends;
\* "fatal": logrus.Fatal; "panic": the panic of callApi; "overflow": the
\* runtime's stack overflow; "killed": stopped from outside.
Terminated == {"finished", "aborted", "fatal", "panic", "overflow", "killed"}

\* the memory of a process that does not exist (yet, or any more)
NoProcess ==
    /\ localItemsCache' = EmptyCache
    /\ maxCombinations' = 0
    /\ maxAttempts' = 0
    /\ attempts' = 0
    /\ createdCombinations' = 0
    /\ firstItem' = ""
    /\ secondItem' = ""
    /\ response' = ZeroResponse
    /\ retries' = 0
    /\ called' = FALSE
    /\ slept' = <<>>

\* the process is stopped from outside, between any two steps; its memory is
\* gone, the store file stays as it is
Kill ==
    /\ pc \in Running
    /\ pc' = "killed"
    /\ NoProcess
    /\ UNCHANGED <<store, iterations>>

\* the program is started again on the same store (main, line 29), with the
\* fresh memory of a new process; restarts are followed while at most one
\* iteration has begun
Restart ==
    /\ pc \in Terminated
    /\ iterations <= 1
    /\ pc' = "boot"
    /\ NoProcess
    /\ UNCHANGED <<store, iterations>>

Next ==
    \/ InitializeDatabase
    \/ InitializeLocalCache
    \/ ExploreCombinations
    \/ LoopExit
    \/ GetRandomItems
    \/ CombinationExists
    \/ CallApiRetry
    \/ CallApiAgain
    \/ CallApiPanic
    \/ CallApiError
    \/ CallApiOk
    \/ InsertOrUpdateItemCache
    \/ InsertOrUpdateItemExec
    \/ InsertCombination
    \/ Kill
    \/ Restart

Spec == Init /\ [][Next]_vars

(***************************************************************************)
(* The store written by a caller that skips the existence check: the       *)
(* logic error that insertCombination has to surface.  SkipCheck enters     *)
(* combineElements for the selected pair whether or not it has a row.       *)
(***************************************************************************)
SkipCheck ==
    /\ pc = "check"
    /\ pc' = "call"
    /\ slept' = <<>>
    /\ UNCHANGED <<store, localItemsCache, iterations, locals>>

NextUnchecked ==
    \/ InitializeDatabase
    \/ InitializeLocalCache
    \/ ExploreCombinations
    \/ LoopExit
    \/ GetRandomItems
    \/ CombinationExists
    \/ SkipCheck
    \/ CallApiRetry
    \/ CallApiAgain
    \/ CallApiPanic
    \/ CallApiError
    \/ CallApiOk
    \/ InsertOrUpdateItemCache
    \/ InsertOrUpdateItemExec
    \/ InsertCombination
    \/ Kill
    \/ Restart

SpecUnchecked == Init /\ [][NextUnchecked]_vars

(***************************************************************************)
(* One run of the program, from start to its end, under an upstream that   *)
(* may answer 429 any number of times.  The depth of callApi's recursion   *)
(* is counted up to MaxRetries; a 429 at that depth is the same step with  *)
(* the depth left at MaxRetries.                                           *)
(***************************************************************************)
\* lines 167-172 at a recursion depth of MaxRetries or more
TooManyRequestsOn(a) ==
    /\ retries = MaxRetries
    /\ slept' = <<RetrySleep(a.retryAfter)>>
    /\ pc' = "throttled"
    /\ UNCHANGED <<response, retries, attempts, createdCombinations, firstItem, secondItem>>

\* one more request of callApi answered 429, at that depth
CallApiRetryOn ==
    /\ pc = "call"
    /\ called' = TRUE
    /\ \E a \in HttpAnswers :
         ~a.err /\ a.status = StatusTooManyRequests /\ TooManyRequestsOn(a)
    /\ UNCHANGED <<store, localItemsCache, iterations, maxCombinations, maxAttempts>>

\* line 173 when the stack is full.  The retry is a call, not a loop: every
\* 429 leaves one more frame of callApi on the stack (with its response,
\* closed only by the deferred Close), and the runtime ends the process
\* when the stack reaches its limit.  Past MaxRetries the depth is not
\* counted, so each further call may be the one that does not fit.
CallApiOverflow ==
    /\ pc = "throttled"
    /\ retries = MaxRetries
    /\ pc' = "overflow"
    /\ slept' = <<>>
    /\ UNCHANGED <<store, localItemsCache, iterations, locals>>

\* a request of callApi gets an answer other than 429
CallApiAnswered == pc = "call" /\ (CallApiPanic \/ CallApiError \/ CallApiOk)

NextLive ==
    \/ InitializeDatabase
    \/ InitializeLocalCache
    \/ ExploreCombinations
    \/ LoopExit
    \/ GetRandomItems
    \/ CombinationExists
    \/ CallApiRetry
    \/ CallApiRetryOn
    \/ CallApiAgain
    \/ CallApiOverflow
    \/ CallApiPanic
    \/ CallApiError
    \/ CallApiOk
    \/ InsertOrUpdateItemCache
    \/ InsertOrUpdateItemExec
    \/ InsertCombination

\* The single thread of main takes its next step (every sleep and every
\* blocking call returns), and the upstream does not answer 429 for ever.
SpecLive ==
    /\ Init
    /\ [][NextLive]_vars
    /\ WF_vars(NextLive)
    /\ SF_vars(CallApiAnswered)

(***************************************************************************)
(* Properties.                                                             *)
(***************************************************************************)
\* the table combinations holds a row for the ordered pair
HasRow(first, second) ==
    \E i \in DOMAIN combinations :
        combinations[i].firstItem = first /\ combinations[i].secondItem = second

\* positions inside an iteration of the loop
InIteration == {"check", "call", "throttled", "upsert", "upsertDb", "insert"}

\* C1: in every reachable state, whatever the iterations and runs before it
\* (and even for a caller that skips the existence check), no two rows of
\* combinations have the same ordered pair (firstItem, secondItem); a pair
\* and its reverse are different keys.
C1_OrderedPairUnique ==
    \A i, j \in DOMAIN combinations :
        (/\ combinations[i].firstItem = combinations[j].firstItem
         /\ combinations[i].secondItem = combinations[j].secondItem) => i = j

\* C1 witness: a fresh store on which two iterations recorded a pair and its
\* reverse, both rows present.
C1_Witness ==
    /\ pc = "loop"
    /\ createdCombinations = 2
    /\ Len(combinations) = 2
    /\ combinations[1].firstItem = combinations[2].secondItem
    /\ combinations[1].secondItem = combinations[2].firstItem

\* C2: insertCombination on an ordered pair that has a row ends the process
\* (fatal) with the table and createdCombinations unchanged; on a pair
\* without a row whose reverse has one, the insert is accepted and appends
\* the row.
C2_DuplicateInsertSurfaced ==
    /\ [][(pc = "insert" /\ HasRow(firstItem, secondItem) /\ InsertCombination) =>
            (/\ pc' = "fatal"
             /\ combinations' = combinations
             /\ createdCombinations' = createdCombinations
             /\ attempts' = attempts)]_vars
    /\ [][(/\ pc = "insert"
           /\ ~HasRow(firstItem, secondItem)
           /\ HasRow(secondItem, firstItem)
           /\ pc' # "fatal"
           /\ InsertCombination) =>
            (/\ Len(combinations') = Len(combinations) + 1
             /\ combinations'[Len(combinations')] =
                    [firstItem |-> firstItem, secondItem |-> secondItem,
                     resultItem |-> response.Result]
             /\ \A i \in DOMAIN combinations : combinations'[i] = combinations[i])]_vars
    /\ [](/\ pc = "insert"
          /\ CombinationsTable \in tables
          /\ ~HasRow(firstItem, secondItem)
          /\ HasRow(secondItem, firstItem)
          => ~InsertFails(firstItem, secondItem, FALSE))

\* C2 witness: the process ended in insertCombination on a pair that has a
\* row (the entry of the answer is already upserted), nothing was counted.
C2_Witness ==
    /\ pc = "fatal"
    /\ HasRow(firstItem, secondItem)
    /\ response.Result \in DOMAIN items
    /\ items[response.Result].emoji = response.Emoji
    /\ response.Result = "Steam"
    /\ createdCombinations = 0
    /\ iterations = 1
    /\ Len(combinations) = Len(SeedPairs)

\* C3: every row of combinations names three rows of items, in every
\* reachable state, and when the combination is about to be inserted the
\* entry of the answer is in the store already.
C3_ReferencesExist ==
    /\ \A i \in DOMAIN combinations :
          /\ combinations[i].firstItem \in DOMAIN items
          /\ combinations[i].secondItem \in DOMAIN items
          /\ combinations[i].resultItem \in DOMAIN items
    /\ pc = "insert" =>
          /\ response.Result \in DOMAIN items
          /\ firstItem \in DOMAIN items
          /\ secondItem \in DOMAIN items

\* C3 witness: the process stopped between the two writes: the new entry
\* is in the store and no combination points to it.
C3_Witness ==
    /\ pc = "killed"
    /\ "Steam" \in DOMAIN items
    /\ \A i \in DOMAIN combinations : combinations[i].resultItem # "Steam"

\* C4: an iteration whose pair has a row (the check answering) makes no
\* request, leaves store and cache unchanged, keeps createdCombinations and
\* adds one to attempts.
C4_SeenPairFrame ==
    [][(/\ pc = "check"
        /\ HasRow(firstItem, secondItem)
        /\ pc' \notin {"check", "aborted", "killed"}) =>
         (/\ pc' = "loop"
          /\ ~called /\ ~called'
          /\ UNCHANGED <<store, localItemsCache, createdCombinations>>
          /\ attempts' = attempts + 1)]_vars

\* C4 witness: an iteration on a recorded pair has completed.
C4_Witness ==
    /\ pc = "loop"
    /\ attempts = 1
    /\ createdCombinations = 0
    /\ slept = <<PacingMillis>>
    /\ Len(combinations) > 0

\* every ordered pair of distinct cache entries has a row
AllExplored ==
    \A p \in RandomPairs(localItemsCache) : HasRow(p[1], p[2])

\* C5: while every pair of cache entries has a row, no step of the loop
\* issues a request or writes store or cache or counts a success; and a
\* loop with maxCombinations > maxAttempts and no success finishes after
\* exactly maxAttempts attempts.
C5_AttemptCeiling ==
    /\ [][(AllExplored /\ pc \in {"loop", "check"} /\ pc' # "killed") =>
            (/\ UNCHANGED <<store, localItemsCache, createdCombinations>>
             /\ ~called'
             /\ pc' \in {"loop", "check", "finished", "aborted"})]_vars
    /\ [](pc = "finished" /\ AllExplored /\ maxCombinations > maxAttempts =>
            (createdCombinations = 0 => attempts = maxAttempts))

\* C5 witness: a run on the fully explored store finished on its attempt
\* ceiling without a success.
C5_Witness ==
    /\ pc = "finished"
    /\ AllExplored
    /\ Cardinality(DOMAIN localItemsCache) >= 2
    /\ maxCombinations > maxAttempts
    /\ maxAttempts >= 1
    /\ attempts = maxAttempts
    /\ createdCombinations = 0

\* C6: inside the loop createdCombinations <= maxCombinations, attempts <=
\* maxAttempts and createdCombinations <= attempts; the loop has finished
\* only with a bound reached, an iteration is in progress only with both
\* bounds unreached, and from the loop head with a bound reached the only
\* step of the process is the exit.
C6_Budgets ==
    /\ [](pc \in InIteration \cup {"loop", "finished", "aborted"} =>
            /\ createdCombinations <= maxCombinations
            /\ attempts <= maxAttempts
            /\ createdCombinations <= attempts)
    /\ [](pc = "finished" =>
            (createdCombinations = maxCombinations \/ attempts = maxAttempts))
    /\ [](pc \in InIteration =>
            (createdCombinations < maxCombinations /\ attempts < maxAttempts))
    /\ [][(/\ pc = "loop"
           /\ (createdCombinations = maxCombinations \/ attempts = maxAttempts)
           /\ pc' # "killed") =>
            (pc' = "finished" /\ UNCHANGED <<store, localItemsCache, locals>>)]_vars

\* C6 witness: a run with maxCombinations = 1 finished at its first
\* success, attempts still below maxAttempts, one row added.
C6_Witness ==
    /\ pc = "finished"
    /\ maxCombinations = 1
    /\ maxAttempts = 2
    /\ createdCombinations = 1
    /\ attempts = 1
    /\ Len(combinations) = 1

\* C7: a step of callApi answered with a status >= 400 other than 429 ends
\* the process (panic) with store, cache and counters unchanged, and
\* nothing is written once the process has ended that way.
C7_HttpFailureAborts ==
    /\ [][(pc = "call" /\ CallApiPanic) =>
            (/\ pc' = "panic"
             /\ UNCHANGED <<store, localItemsCache, attempts, createdCombinations>>)]_vars
    /\ [][pc = "panic" =>
            (pc' \in {"panic", "boot"} /\ UNCHANGED store)]_vars

\* C7 witness: the process panicked in its second iteration; the row and
\* the entry of the first iteration are in the store.
C7_Witness ==
    /\ pc = "panic"
    /\ createdCombinations = 1
    /\ Len(combinations) = 1
    /\ combinations[1].resultItem = "Steam"
    /\ "Steam" \in DOMAIN items

\* C8: a step of callApi answered 429 stays in callApi, which sleeps and
\* calls itself with the same pair, and writes nothing to store, cache or
\* counters, whatever the number of 429 answers before it; the iteration that then gets an ApiResponse ends
\* with one more attempt, one more created combination and one more row,
\* the row of the pair with the result of that last answer, whose entry is
\* the one upserted.
C8_ThrottlingInvisible ==
    /\ [][(pc = "call" /\ CallApiRetry) =>
            (/\ pc' = "throttled"
             /\ retries' = retries + 1
             /\ UNCHANGED <<store, localItemsCache, attempts, createdCombinations,
                            firstItem, secondItem, response>>)]_vars
    /\ [][(pc = "throttled" /\ pc' # "killed") =>
            (/\ pc' \in {"throttled", "call"}
             /\ UNCHANGED <<store, localItemsCache, locals>>)]_vars
    /\ [][(pc = "call" /\ pc' = "upsert") =>
            (/\ \E a \in HttpAnswers :
                   ~a.err /\ a.body.json /\ CallApi(a) /\ response' = Unmarshal(a.body)
             /\ UNCHANGED <<store, localItemsCache, attempts, createdCombinations,
                            firstItem, secondItem>>)]_vars
    /\ [][(pc \in InIteration /\ called /\ pc' = "loop") =>
            (/\ attempts' = attempts + 1
             /\ createdCombinations' = createdCombinations + 1
             /\ combinations' = Append(combinations,
                    [firstItem |-> firstItem, secondItem |-> secondItem,
                     resultItem |-> response.Result])
             /\ items' = items
             /\ items[response.Result] =
                    [emoji |-> response.Emoji, isNew |-> response.IsNew])]_vars

\* C8 witness: callApi has been answered 429 twice in a row for the same
\* pair and is about to issue the request a third time, nothing written.
C8_Witness ==
    /\ pc = "call"
    /\ retries = 2
    /\ called
    /\ firstItem = "Water"
    /\ secondItem = "Fire"
    /\ combinations = <<>>
    /\ attempts = 0

\* C9: after a 429 the client has waited Retry-After + 1 seconds, at least
\* one second whatever the header.
C9_WaitAtLeastOneSecond ==
    pc = "throttled" =>
        (slept # <<>> /\ Waited(slept[1]) >= MillisPerSecond)

\* C10: when an iteration that got an ApiResponse completes, the cache maps
\* the result name to the glyph of the answer, which is the glyph of the
\* items row of that name.
C10_CacheMatchesStore ==
    [][(pc = "insert" /\ pc' = "loop") =>
         (/\ response.Result \in DOMAIN localItemsCache'
          /\ response.Result \in DOMAIN items'
          /\ localItemsCache'[response.Result] = items'[response.Result].emoji
          /\ localItemsCache'[response.Result] = response.Emoji)]_vars

\* C10 witness: on a fresh store a discovery answered with the known name
\* Water has completed, and cache and store hold the new glyph.
C10_Witness ==
    /\ pc = "loop"
    /\ createdCombinations = 1
    /\ Len(combinations) = 1
    /\ combinations[1].resultItem = "Water"
    /\ localItemsCache["Water"] = ":ocean:"
    /\ items["Water"].emoji = ":ocean:"

\* C11: insertOrUpdateItem is keyed by name.  The upsert leaves the row of
\* the name with the glyph and isNew of the call and every other row as it
\* was; for a name already present the number of rows does not change; a
\* call whose name, glyph and isNew are those of the row already there
\* leaves the table as it was, and so would a second identical call.
C11_UpsertKeyedByName ==
    [][(pc = "upsertDb" /\ pc' = "insert") =>
         LET name == response.Result
             row  == [emoji |-> response.Emoji, isNew |-> response.IsNew]
         IN  /\ DOMAIN items' = DOMAIN items \cup {name}
             /\ items'[name] = row
             /\ \A n \in DOMAIN items : n # name => items'[n] = items[n]
             /\ name \in DOMAIN items =>
                   Cardinality(DOMAIN items') = Cardinality(DOMAIN items)
             /\ (name \in DOMAIN items /\ items[name] = row) => items' = items
             /\ UpsertItem(items', name, row.emoji, row.isNew) = items']_vars

\* C11 witness: the second iteration of a run got the answer of the first
\* (Steam, same glyph, same isNew) and has upserted it again: one row.
C11_Witness ==
    /\ pc = "insert"
    /\ createdCombinations = 1
    /\ Len(combinations) = 1
    /\ combinations[1].resultItem = "Steam"
    /\ response = [Result |-> "Steam", Emoji |-> ":dash:", IsNew |-> TRUE]
    /\ items["Steam"] = [emoji |-> ":dash:", isNew |-> TRUE]
    /\ Cardinality(DOMAIN items) = Len(initialItems) + 1

\* C12: getRandomItems fails exactly when the cache has fewer than two keys.
\* An iteration that ended in getRandomItems (aborted, no pair selected)
\* had a cache of fewer than two keys; an iteration that has a pair has a
\* cache of at least two keys, both names are keys of it and they differ;
\* no row of combinations combines a name with itself.
C12_TwoDistinctKeys ==
    /\ (pc = "aborted" /\ firstItem = "" /\ secondItem = "") =>
          Cardinality(DOMAIN localItemsCache) < 2
    /\ pc \in InIteration =>
          /\ Cardinality(DOMAIN localItemsCache) >= 2
          /\ firstItem \in DOMAIN localItemsCache
          /\ secondItem \in DOMAIN localItemsCache
          /\ firstItem # secondItem
    /\ \A i \in DOMAIN combinations :
          combinations[i].firstItem # combinations[i].secondItem

\* C12 witness: a start on a store whose seeding stopped after the first
\* entry: the cache has one key and the first iteration ended in
\* getRandomItems.
C12_Witness ==
    /\ pc = "aborted"
    /\ firstItem = ""
    /\ Cardinality(DOMAIN localItemsCache) = 1
    /\ maxAttempts >= 1
    /\ maxCombinations >= 1
    /\ attempts = 0

\* C13: the loop reaches "aborted" only from getRandomItems or from the
\* existence check, by a step that leaves store, cache, attempts and
\* createdCombinations as they were, in an iteration that issued no
\* request; the check returns to the loop head only for a pair that has a
\* row (an error never does); and from "aborted" no step of the loop
\* follows: the store stays as it is until the program is started again.
C13_AbortLeavesNoTrace ==
    /\ [][(pc' = "aborted" /\ pc # "aborted") =>
            (/\ pc \in {"loop", "check"}
             /\ ~called /\ ~called'
             /\ UNCHANGED <<store, localItemsCache, attempts, createdCombinations>>)]_vars
    /\ [][(pc = "check" /\ pc' = "loop") => HasRow(firstItem, secondItem)]_vars
    /\ [][pc = "aborted" => (pc' \in {"aborted", "boot"} /\ UNCHANGED store)]_vars

\* C13 witness: the second iteration of a run was aborted by an error of the
\* existence check; the row and the counts of the first iteration stand.
C13_Witness ==
    /\ pc = "aborted"
    /\ firstItem # ""
    /\ ~called
    /\ attempts = 1
    /\ createdCombinations = 1
    /\ Len(combinations) = 1

\* C14: initializeDatabase that returns on a missing file has created both
\* tables and left exactly the four seed entries (Water, Fire, Wind, Earth,
\* each with its glyph and isNew false) and no combination; on a file that
\* exists it creates no table, inserts nothing and leaves every row of
\* items and combinations as it was.
C14_BootstrapOnce ==
    [][(pc = "boot" /\ pc' = "hydrate") =>
         IF dbExists
         THEN UNCHANGED store
         ELSE /\ dbExists'
              /\ tables' = {ItemsTable, CombinationsTable}
              /\ DOMAIN items' = {"Water", "Fire", "Wind", "Earth"}
              /\ \A k \in DOMAIN initialItems :
                    items'[initialItems[k].Name] =
                        [emoji |-> initialItems[k].Emoji, isNew |-> FALSE]
              /\ combinations' = <<>>]_vars

\* C14 witness: the program was started a second time, on the store its
\* first run had created and extended: initializeDatabase has returned and
\* the discovered entry and its combination are there.
C14_Witness ==
    /\ pc = "hydrate"
    /\ dbExists
    /\ Len(combinations) = 1
    /\ DOMAIN items = {"Water", "Fire", "Wind", "Earth", "Steam"}
    /\ items["Water"].emoji = ":droplet:"

\* C15: createdCombinations is the number of rows the run has added and
\* attempts the number of iterations it has completed.  Both are 0 when the
\* loop is entered; a step that completes an iteration adds one to attempts
\* and adds to createdCombinations what it adds to the rows; for a pair
\* without a row that is exactly one row, appended, of the selected
\* (firstItem, secondItem) and the Result of the answer; for a pair with a
\* row it is nothing; and no other step of a run changes rows or counters.
C15_CountersTrackStore ==
    /\ [][(pc = "explore" /\ pc' = "loop") =>
            (createdCombinations' = 0 /\ attempts' = 0 /\ UNCHANGED store)]_vars
    /\ [][(pc' = "loop" /\ pc \in InIteration) =>
            (/\ attempts' = attempts + 1
             /\ createdCombinations' - createdCombinations =
                    Len(combinations') - Len(combinations)
             /\ IF HasRow(firstItem, secondItem)
                THEN combinations' = combinations
                ELSE /\ createdCombinations' = createdCombinations + 1
                     /\ combinations' = Append(combinations,
                            [firstItem |-> firstItem, secondItem |-> secondItem,
                             resultItem |-> response.Result]))]_vars
    /\ [][(pc \in InIteration \cup {"loop"} /\ pc' \notin {"loop", "killed"}) =>
            UNCHANGED <<combinations, createdCombinations, attempts>>]_vars

\* C15 witness: a run on a fresh store has completed two iterations, the
\* first on an unseen pair and the second on the pair just recorded.
C15_Witness ==
    /\ pc = "loop"
    /\ attempts = 2
    /\ createdCombinations = 1
    /\ Len(combinations) = 1
    /\ slept = <<PacingMillis>>

\* C16: the entry of an answer is upserted into the store before it is put
\* into the cache, so in every reachable state each name the cache holds is
\* a row of items, with the glyph the cache holds for it.
C16_StoreBeforeCache ==
    \A n \in DOMAIN localItemsCache :
        n \in DOMAIN items /\ items[n].emoji = localItemsCache[n]

C18_Additive ==
    [][/\ DOMAIN items \subseteq DOMAIN items'
       /\ Len(combinations) <= Len(combinations')
       /\ \A i \in DOMAIN combinations : combinations'[i] = combinations[i]
       /\ pc' \notin {"killed", "boot"} =>
             DOMAIN localItemsCache \subseteq DOMAIN localItemsCache']_vars

\* C18 witness: the second iteration of a run rediscovered the known name
\* Water with a new glyph and has upserted it; the row written by the first
\* iteration, which names Water, is as it was.
C18_Witness ==
    /\ pc = "insert"
    /\ response.Result = "Water"
    /\ items["Water"].emoji = ":ocean:"
    /\ createdCombinations = 1
    /\ Len(combinations) = 1
    /\ "Water" \in {combinations[1].firstItem, combinations[1].secondItem}
    /\ combinations[1].resultItem = "Steam"

\* C19: if the upstream does not answer 429 for ever, every run ends, with
\* attempts never above maxAttempts; and while it answers 429 the run does
\* not end: a request answered 429, however many 429 answers came before,
\* is followed by the sleep and by the same request again, with store,
\* cache, counters and pair as they were.
C19_RetryWithoutEnd ==
    /\ <>(pc \in Terminated)
    /\ [](attempts <= maxAttempts)
    /\ [][(pc = "call" /\ (CallApiRetry \/ CallApiRetryOn)) =>
            (/\ pc' = "throttled"
             /\ UNCHANGED <<store, localItemsCache, attempts, createdCombinations,
                            firstItem, secondItem>>)]_vars
    /\ [][pc = "throttled" =>
            (pc' = "call" /\ UNCHANGED <<store, localItemsCache, locals>>)]_vars

\* C20: a request of callApi that fails in transport, or whose body cannot
\* be read or decoded, ends the process (logrus.Fatal) with store, cache
\* and counters as they were and the pair still without a row; once the
\* process has ended that way nothing is written and no request follows.
C20_CallErrorIsFatal ==
    /\ [][(pc = "call" /\ CallApiError) =>
            (/\ pc' = "fatal"
             /\ response' = ZeroResponse
             /\ ~HasRow(firstItem, secondItem)
             /\ UNCHANGED <<store, localItemsCache, attempts, createdCombinations,
                            firstItem, secondItem>>)]_vars
    /\ [][pc = "fatal" => (pc' \in {"fatal", "boot"} /\ UNCHANGED store)]_vars

\* C20 witness: the second iteration of a run ended the process in callApi:
\* no answer was decoded, the pair has no row, and the row of the first
\* iteration is there.
C20_Witness ==
    /\ pc = "fatal"
    /\ called
    /\ response = ZeroResponse
    /\ firstItem # ""
    /\ ~HasRow(firstItem, secondItem)
    /\ createdCombinations = 1
    /\ Len(combinations) = 1

====
